---------------------------- MODULE Spec2Model ----------------------------
(***************************************************************************)
(* Model of src/server.js: the e-library admin API.                        *)
(*                                                                         *)
(* State: the committed "books" table of the database, the SERIAL counter  *)
(* and insertion clock, the browser's session cookie, the pool's count of  *)
(* checked-out clients, and one record per request being handled (its      *)
(* position in the handler, what it read, what it answered).               *)
(*                                                                         *)
(* Handlers interleave only at their awaits: every action below is one     *)
(* stretch of handler code from one await to the next, together with the   *)
(* database statement or object-store call whose result it awaited.        *)
(*                                                                         *)
(* Strings are sequences of tokens (URLs) or of characters (query values), *)
(* so that URL parsing and parseInt are computed, not assumed.             *)
(* The empty sequence stands for both "" and undefined: the code only      *)
(* tests such values for truthiness.                                       *)
(***************************************************************************)
EXTENDS Integers, Sequences, FiniteSets, TLC

\* ------------------------------------------------------------------ bounds
\* Ids the SERIAL column may hand out in the main specification.
MaxId == 2
\* Rows of the table in the paged-list specification.
MaxRows == 3
\* Length of a page / limit query value, in characters.
MaxQLen == 2

\* Request slots: requests handled at the same time.
Reqs == 1..2

\* ------------------------------------------------------------- strings/URLs
Bucket == "/ebook-pdf/"
Origins == {"https://store"}

UrlA == <<"https://store", "/ebook-pdf/", "a.pdf">>
UrlB == <<"https://store", "/ebook-pdf/", "b.pdf">>
\* "u1" of the spec's scenario: not a URL at all.
UrlPlain == <<"u1">>
\* A URL outside the bucket.
UrlOther == <<"https://store", "/other/", "a.pdf">>
\* A URL that ends right after the bucket segment.
UrlBare == <<"https://store", "/ebook-pdf/">>

Urls == {UrlA, UrlB, UrlPlain, UrlOther, UrlBare}

\* The pdf_url values requests bring for a book.
NewUrls == {UrlA, UrlPlain}

\* new URL(u): throws unless u starts with scheme and host.
UrlParses(u) == Len(u) > 0 /\ u[1] \in Origins

\* new URL(u).pathname
Pathname(u) == Tail(u)

\* Position of the first Bucket token of p at or after i, 0 if none.
RECURSIVE IndexFrom(_, _)
IndexFrom(p, i) ==
    IF i > Len(p) THEN 0
    ELSE IF p[i] = Bucket THEN i
    ELSE IndexFrom(p, i + 1)

\* p.split('/ebook-pdf/')[1]: what lies between the first separator and the
\* second one (or the end); undefined (<<>>) when there is no separator.
SplitSecond(p) ==
    LET i == IndexFrom(p, 1)
        j == IF i = 0 THEN 0 ELSE IndexFrom(p, i + 1)
    IN  IF i = 0 THEN <<>>
        ELSE IF j = 0 THEN SubSeq(p, i + 1, Len(p))
        ELSE SubSeq(p, i + 1, j - 1)

\* The storage key of a URL that parses.
FilePath(u) == SplitSecond(Pathname(u))

\* ---------------------------------------------------------------- parseInt
Digits == {"0", "2"}
QChars == {"-", "0", "2", "a"}

DigitVal(c) == CASE c = "0" -> 0 [] c = "2" -> 2

\* Value of the longest prefix of digits of s, continuing from acc;
\* n counts the digits consumed.
RECURSIVE DigitPrefix(_, _, _)
DigitPrefix(s, acc, n) ==
    IF s = <<>> \/ Head(s) \notin Digits THEN [val |-> acc, n |-> n]
    ELSE DigitPrefix(Tail(s), 10 * acc + DigitVal(Head(s)), n + 1)

\* parseInt(s): optional sign, then the longest prefix of decimal digits;
\* NaN when there is none.
ParseInt(s) ==
    LET neg == s # <<>> /\ Head(s) = "-"
        d == DigitPrefix(IF neg THEN Tail(s) ELSE s, 0, 0)
    IN  IF d.n = 0 THEN [nan |-> TRUE, val |-> 0]
        ELSE [nan |-> FALSE, val |-> IF neg THEN 0 - d.val ELSE d.val]

\* parseInt(x) || dflt: NaN and 0 are falsy.
OrDefault(p, dflt) == IF p.nan \/ p.val = 0 THEN dflt ELSE p.val

DefaultPage == 1
DefaultLimit == 5

RECURSIVE StringsUpTo(_)
StringsUpTo(n) ==
    IF n = 0 THEN {<<>>}
    ELSE LET S == StringsUpTo(n - 1)
         IN  S \cup {Append(s, c) : s \in {t \in S : Len(t) = n - 1}, c \in QChars}

QueryVals == StringsUpTo(MaxQLen)

\* ------------------------------------------------------------------- state
VARIABLES
    books,      \* committed rows: id -> [pdf_url, created_at]
    nextId,     \* next value of the SERIAL id
    cookie,     \* the browser's session cookie
    poolOut,    \* clients checked out of the pool
    reqs        \* request slot -> request record

vars == <<books, nextId, cookie, poolOut, reqs>>

Marker == "admin_logged_in"

Idle ==
    [kind |-> "idle", pc |-> "idle", session |-> "none", id |-> 0,
     pdf_url |-> <<>>, old_pdf_url |-> <<>>, key |-> <<>>, calls |-> <<>>,
     cleanup |-> "none", status |-> 0, responses |-> 0, body |-> "none",
     fault |-> FALSE, found |-> FALSE, conn |-> FALSE, acquired |-> FALSE,
     releases |-> 0, pending |-> FALSE, committed |-> FALSE, rowCount |-> 0,
     pageStr |-> <<>>, limitStr |-> <<>>, page |-> 0, limit |-> 0,
     rejected |-> FALSE, rows |-> <<>>, totalBooks |-> 0, totalPages |-> 0]

\* res.status(code).json(...) and the end of the handler.
Respond(q, code, body) ==
    [q EXCEPT !.pc = "done", !.status = code, !.body = body,
              !.responses = q.responses + 1]

\* ---------------------------------------------------------- authMiddleware
\* Mutant: any cookie at all passes the gate.
AuthMiddlewareAnyCookie(session, isApiPath, wantsJson) ==
    IF session # "none" THEN "next"
    ELSE IF wantsJson \/ isApiPath THEN "401"
    ELSE "redirect"

AuthMiddleware(session, isApiPath, wantsJson) ==
    IF session = Marker THEN "next"
    ELSE IF wantsJson \/ isApiPath THEN "401"
    ELSE "redirect"

\* The middleware answers before the handler reads anything of the request.
Denied(q) ==
    Respond([Idle EXCEPT !.kind = q.kind, !.session = q.session], 401, "failure")

\* The cookie a request carries: the browser's, or none from another client.
Sessions == {cookie, "guest"}

\* --------------------------------------------------------- login / logout
Usernames == {"admin", "mallory"}
Passwords == {"secret", "guess"}

Login(username, password) ==
    /\ \A r \in Reqs : reqs[r].pc # "done"
    /\ cookie' = IF username = "admin" /\ password = "secret"
                 THEN Marker ELSE cookie
    /\ UNCHANGED <<books, nextId, poolOut, reqs>>

Logout ==
    /\ \A r \in Reqs : reqs[r].pc # "done"
    /\ cookie' = "none"
    /\ UNCHANGED <<books, nextId, poolOut, reqs>>


\* -------------------------------------------------------------- the database
Ids == 1..MaxId

\* The ids requests name: those the table may hold and one it never holds.
ReqIds == 1..(MaxId + 1)

\* Rows ordered by created_at, newest first (ORDER BY created_at DESC).
RECURSIVE OrderDesc(_, _)
OrderDesc(table, ids) ==
    IF ids = {} THEN <<>>
    ELSE LET top == CHOOSE i \in ids :
                        \A j \in ids : table[j].created_at <= table[i].created_at
         IN  <<top>> \o OrderDesc(table, ids \ {top})

\* SELECT * FROM books ORDER BY created_at DESC LIMIT limit OFFSET offset,
\* as the ids of the rows returned.
SelectPage(table, limit, offset) ==
    LET all == OrderDesc(table, DOMAIN table)
    IN  SubSeq(all, offset + 1,
               IF offset + limit < Len(all) THEN offset + limit ELSE Len(all))

\* Mutant: the offset counts pages from zero.
OffsetFromZero(page, limit) == page * limit

\* const offset = (page - 1) * limit
Offset(page, limit) == (page - 1) * limit

\* LIMIT and OFFSET must not be negative: the statement is an error.
PageQueryRejected(limit, offset) == limit < 0 \/ offset < 0

\* Math.ceil(n / d) for d > 0.
Ceil(n, d) == IF n % d = 0 THEN n \div d ELSE (n \div d) + 1

\* A transaction of another request holds the row: its DELETE is not yet
\* committed or rolled back, and a statement that touches the row waits.
LockedByOther(r, id) ==
    \E o \in Reqs \ {r} : reqs[o].pending /\ reqs[o].id = id

\* The table without row id.
Without(table, id) == [i \in DOMAIN table \ {id} |-> table[i]]

\* A response is looked at the moment it is sent: nothing else happens until
\* its record is cleared (the server keeps nothing of a finished request).
Quiet == \A r \in Reqs : reqs[r].pc # "done"

\* A request may arrive in a free slot.
Free(r) == Quiet /\ reqs[r].kind = "idle"

\* Request r stands at step pc of the handler of kind.
At(r, kind, pc) == Quiet /\ reqs[r].kind = kind /\ reqs[r].pc = pc

\* The response was delivered; the slot is free again.
Clear(r) ==
    /\ reqs[r].pc = "done"
    /\ reqs' = [reqs EXCEPT ![r] = Idle]
    /\ UNCHANGED <<books, nextId, cookie, poolOut>>

\* ------------------------------------------------- GET /api/check-auth, pages
CheckAuth(r, session) ==
    /\ Free(r)
    /\ LET q == [Idle EXCEPT !.kind = "check", !.session = session]
       IN  reqs' = [reqs EXCEPT ![r] =
                IF AuthMiddleware(session, TRUE, FALSE) = "next"
                THEN Respond(q, 200, "success") ELSE Denied(q)]
    /\ UNCHANGED <<books, nextId, cookie, poolOut>>

\* GET /dashboard: a page request, redirected to /login unless it asks for JSON.
Dashboard(r, session, wantsJson) ==
    /\ Free(r)
    /\ LET q == [Idle EXCEPT !.kind = "page", !.session = session]
           a == AuthMiddleware(session, FALSE, wantsJson)
       IN  reqs' = [reqs EXCEPT ![r] =
                CASE a = "next" -> Respond(q, 200, "file")
                  [] a = "401" -> Denied(q)
                  [] OTHER -> Respond(q, 302, "redirect")]
    /\ UNCHANGED <<books, nextId, cookie, poolOut>>

\* ------------------------------------------------------------ POST /api/books
Create(r, session, title, thumbnail, pdf_url, ok) ==
    /\ Free(r)
    /\ LET q == [Idle EXCEPT !.kind = "create", !.session = session,
                             !.pdf_url = pdf_url]
       IN  IF AuthMiddleware(session, TRUE, FALSE) # "next"
           THEN /\ reqs' = [reqs EXCEPT ![r] = Denied(q)]
                /\ UNCHANGED <<books, nextId>>
           ELSE IF title = <<>> \/ thumbnail = <<>> \/ pdf_url = <<>>
           THEN /\ reqs' = [reqs EXCEPT ![r] = Respond(q, 400, "failure")]
                /\ UNCHANGED <<books, nextId>>
           ELSE IF ~ok
           THEN /\ reqs' = [reqs EXCEPT ![r] =
                        Respond([q EXCEPT !.fault = TRUE], 500, "failure")]
                /\ UNCHANGED <<books, nextId>>
           ELSE /\ nextId <= MaxId
                /\ books' = [i \in DOMAIN books \cup {nextId} |->
                                IF i = nextId
                                THEN [pdf_url |-> pdf_url, created_at |-> nextId]
                                ELSE books[i]]
                /\ nextId' = nextId + 1
                /\ reqs' = [reqs EXCEPT ![r] =
                        Respond([q EXCEPT !.id = nextId], 201, "success")]
    /\ UNCHANGED <<cookie, poolOut>>

\* -------------------------------------------------------- PUT /api/books/:id
\* Mutant: the old file is removed even when the PDF was not replaced.
CleanupOldAlways(q) ==
    IF q.old_pdf_url # <<>>
    THEN IF ~UrlParses(q.old_pdf_url)
         THEN Respond([q EXCEPT !.cleanup = "parse_error"], 200, "success")
         ELSE IF FilePath(q.old_pdf_url) = <<>>
         THEN Respond([q EXCEPT !.cleanup = "no_key"], 200, "success")
         ELSE [q EXCEPT !.pc = "remove", !.key = FilePath(q.old_pdf_url),
                        !.calls = Append(q.calls, FilePath(q.old_pdf_url))]
    ELSE Respond([q EXCEPT !.cleanup = "skipped"], 200, "success")

\* The try block around the removal of the old file, up to the remove call:
\* the request after it, either finished or awaiting the object store.
CleanupOld(q) ==
    IF q.old_pdf_url # <<>> /\ q.old_pdf_url # q.pdf_url
    THEN IF ~UrlParses(q.old_pdf_url)
         THEN Respond([q EXCEPT !.cleanup = "parse_error"], 200, "success")
         ELSE IF FilePath(q.old_pdf_url) = <<>>
         THEN Respond([q EXCEPT !.cleanup = "no_key"], 200, "success")
         ELSE [q EXCEPT !.pc = "remove", !.key = FilePath(q.old_pdf_url),
                        !.calls = Append(q.calls, FilePath(q.old_pdf_url))]
    ELSE Respond([q EXCEPT !.cleanup = "skipped"], 200, "success")

\* The request arrives and its UPDATE statement runs.
UpdateQuery(r, session, id, pdf_url, old_pdf_url, ok) ==
    /\ Free(r)
    /\ LET q == [Idle EXCEPT !.kind = "update", !.session = session, !.id = id,
                             !.pdf_url = pdf_url, !.old_pdf_url = old_pdf_url]
       IN  IF AuthMiddleware(session, TRUE, FALSE) # "next"
           THEN /\ reqs' = [reqs EXCEPT ![r] = Denied(q)]
                /\ UNCHANGED books
           ELSE /\ ~LockedByOther(r, id)
                /\ IF ~ok \/ (id \in DOMAIN books /\ pdf_url = <<>>)
                   THEN \* the statement fails (pdf_url is NOT NULL)
                        /\ reqs' = [reqs EXCEPT ![r] =
                               Respond([q EXCEPT !.fault = TRUE], 500, "failure")]
                        /\ UNCHANGED books
                   ELSE /\ books' = IF id \in DOMAIN books
                                    THEN [books EXCEPT ![id].pdf_url = pdf_url]
                                    ELSE books
                        /\ reqs' = [reqs EXCEPT ![r] =
                               CleanupOld(q)]
    /\ UNCHANGED <<nextId, cookie, poolOut>>

\* Mutant: a failed removal fails the update.
UpdateRemoveThrows(r, removed) ==
    /\ At(r, "update", "remove")
    /\ reqs' = [reqs EXCEPT ![r] =
            IF removed THEN Respond([@ EXCEPT !.cleanup = "ok"], 200, "success")
            ELSE Respond([@ EXCEPT !.cleanup = "remote_error"], 500, "failure")]
    /\ UNCHANGED <<books, nextId, cookie, poolOut>>

\* supabaseAdmin.storage.from('ebook-pdf').remove([oldFilePath]) returns or throws.
UpdateRemove(r, removed) ==
    /\ At(r, "update", "remove")
    /\ reqs' = [reqs EXCEPT ![r] =
            Respond([@ EXCEPT !.cleanup = IF removed THEN "ok" ELSE "remote_error"],
                    200, "success")]
    /\ UNCHANGED <<books, nextId, cookie, poolOut>>

\* ----------------------------------------------------- DELETE /api/books/:id
\* Mutant: the client is released after the response, not in a finally block.
ReleaseAfterResponse(q) ==
    IF q.conn /\ q.responses > 0
    THEN [q EXCEPT !.conn = FALSE, !.releases = q.releases + 1] ELSE q

\* finally { if (client) client.release() }
Release(q) ==
    IF q.conn THEN [q EXCEPT !.conn = FALSE, !.releases = q.releases + 1] ELSE q

\* A database statement of the transaction threw: the catch block is next.
\* The failed transaction holds no row any more once it is aborted, and
\* pdf_url, a constant of the try block, is out of scope.
Thrown(q) ==
    [q EXCEPT !.pc = "catch", !.fault = TRUE, !.pending = FALSE,
              !.pdf_url = <<>>]

\* The request arrives and pool.connect() resolves or rejects.
DeleteConnect(r, session, id, ok) ==
    /\ Free(r)
    /\ LET q == [Idle EXCEPT !.kind = "delete", !.session = session, !.id = id]
       IN  IF AuthMiddleware(session, TRUE, FALSE) # "next"
           THEN /\ reqs' = [reqs EXCEPT ![r] = Denied(q)]
                /\ UNCHANGED poolOut
           ELSE IF ~ok
           THEN \* client is undefined: no ROLLBACK, no release
                /\ reqs' = [reqs EXCEPT ![r] =
                       Respond([q EXCEPT !.fault = TRUE], 500, "failure")]
                /\ UNCHANGED poolOut
           ELSE /\ reqs' = [reqs EXCEPT ![r] =
                       [q EXCEPT !.pc = "begin", !.conn = TRUE, !.acquired = TRUE]]
                /\ poolOut' = poolOut + 1
    /\ UNCHANGED <<books, nextId, cookie>>

\* client.query('BEGIN')
DeleteBegin(r, ok) ==
    /\ At(r, "delete", "begin")
    /\ reqs' = [reqs EXCEPT ![r] =
            IF ok THEN [@ EXCEPT !.pc = "select"] ELSE Thrown(@)]
    /\ UNCHANGED <<books, nextId, cookie, poolOut>>

\* SELECT pdf_url FROM books WHERE id = $1: reads the committed table.
DeleteSelect(r, ok) ==
    /\ At(r, "delete", "select")
    /\ reqs' = [reqs EXCEPT ![r] =
            IF ~ok THEN Thrown(@)
            ELSE IF reqs[r].id \notin DOMAIN books
            THEN [@ EXCEPT !.pc = "notfound"]
            ELSE [@ EXCEPT !.pc = "delete", !.found = TRUE,
                           !.pdf_url = books[reqs[r].id].pdf_url]]
    /\ UNCHANGED <<books, nextId, cookie, poolOut>>

\* No such row: ROLLBACK, then the 404 and the finally block.
DeleteNotFound(r, ok) ==
    /\ At(r, "delete", "notfound")
    /\ reqs' = [reqs EXCEPT ![r] =
            IF ok THEN Release(Respond(@, 404, "failure")) ELSE Thrown(@)]
    /\ poolOut' = poolOut - (reqs'[r].releases - reqs[r].releases)
    /\ UNCHANGED <<books, nextId, cookie>>

\* Mutant: a URL that does not parse throws out of the handler's try block.
CleanupFileThrows(q) ==
    IF ~UrlParses(q.pdf_url)
    THEN [q EXCEPT !.pc = "catch", !.cleanup = "parse_error", !.pending = FALSE]
    ELSE IF FilePath(q.pdf_url) = <<>>
    THEN [q EXCEPT !.pc = "commit", !.cleanup = "no_key"]
    ELSE [q EXCEPT !.pc = "remove", !.key = FilePath(q.pdf_url),
                   !.calls = Append(q.calls, FilePath(q.pdf_url))]

\* The try block around the removal of the book's file, up to the remove call.
CleanupFile(q) ==
    IF ~UrlParses(q.pdf_url)
    THEN [q EXCEPT !.pc = "commit", !.cleanup = "parse_error"]
    ELSE IF FilePath(q.pdf_url) = <<>>
    THEN [q EXCEPT !.pc = "commit", !.cleanup = "no_key"]
    ELSE [q EXCEPT !.pc = "remove", !.key = FilePath(q.pdf_url),
                   !.calls = Append(q.calls, FilePath(q.pdf_url))]

\* DELETE FROM books WHERE id = $1, inside the transaction: it waits while
\* another transaction holds the row, then deletes the row if it is still
\* there; the deletion stays pending until COMMIT.
DeleteRow(r, ok) ==
    /\ At(r, "delete", "delete")
    /\ ~LockedByOther(r, reqs[r].id)
    /\ reqs' = [reqs EXCEPT ![r] =
            IF ~ok THEN Thrown(@)
            ELSE CleanupFile([@ EXCEPT !.pending = reqs[r].id \in DOMAIN books,
                                       !.rowCount = IF reqs[r].id \in DOMAIN books
                                                    THEN 1 ELSE 0])]
    /\ UNCHANGED <<books, nextId, cookie, poolOut>>

\* supabaseAdmin.storage.from('ebook-pdf').remove([filePath]) returns or throws.
DeleteRemove(r, removed) ==
    /\ At(r, "delete", "remove")
    /\ reqs' = [reqs EXCEPT ![r] =
            [@ EXCEPT !.pc = "commit",
                      !.cleanup = IF removed THEN "ok" ELSE "remote_error"]]
    /\ UNCHANGED <<books, nextId, cookie, poolOut>>

\* client.query('COMMIT'), the 200 and the finally block.
DeleteCommit(r, ok) ==
    /\ At(r, "delete", "commit")
    /\ IF ok
       THEN /\ books' = IF reqs[r].pending THEN Without(books, reqs[r].id)
                        ELSE books
            /\ reqs' = [reqs EXCEPT ![r] =
                   Release(Respond([@ EXCEPT !.pending = FALSE,
                                             !.committed = TRUE],
                                   200, "success"))]
            /\ poolOut' = poolOut - (reqs'[r].releases - reqs[r].releases)
       ELSE /\ reqs' = [reqs EXCEPT ![r] = Thrown(@)]
            /\ UNCHANGED <<books, poolOut>>
    /\ UNCHANGED <<nextId, cookie>>

\* catch: ROLLBACK on the client, then the 500; a ROLLBACK that throws leaves
\* the handler without a response. The finally block releases the client.
DeleteCatch(r, ok) ==
    /\ At(r, "delete", "catch")
    /\ reqs' = [reqs EXCEPT ![r] =
            IF ok THEN Release(Respond(@, 500, "failure"))
            ELSE Release([@ EXCEPT !.pc = "done"])]
    /\ poolOut' = poolOut - (reqs'[r].releases - reqs[r].releases)
    /\ UNCHANGED <<books, nextId, cookie>>

\* ------------------------------------------------------------- GET /api/books
\* The request arrives; page, limit and offset are computed and the page
\* query runs.
ListQuery(r, session, pageStr, limitStr, ok) ==
    /\ Free(r)
    /\ LET page == OrDefault(ParseInt(pageStr), DefaultPage)
           limit == OrDefault(ParseInt(limitStr), DefaultLimit)
           offset == Offset(page, limit)
           q == [Idle EXCEPT !.kind = "list", !.session = session,
                             !.pageStr = pageStr, !.limitStr = limitStr,
                             !.page = page, !.limit = limit]
       IN  reqs' = [reqs EXCEPT ![r] =
               IF AuthMiddleware(session, TRUE, FALSE) # "next" THEN Denied(q)
               ELSE IF ~ok
               THEN Respond([q EXCEPT !.fault = TRUE], 500, "failure")
               ELSE IF PageQueryRejected(limit, offset)
               THEN Respond([q EXCEPT !.rejected = TRUE], 500, "failure")
               ELSE [q EXCEPT !.pc = "count",
                              !.rows = SelectPage(books, limit, offset)]]
    /\ UNCHANGED <<books, nextId, cookie, poolOut>>

\* SELECT COUNT(*) FROM books, then the response.
ListCount(r, ok) ==
    /\ At(r, "list", "count")
    /\ reqs' = [reqs EXCEPT ![r] =
            IF ~ok THEN Respond([@ EXCEPT !.fault = TRUE, !.rows = <<>>],
                                500, "failure")
            ELSE Respond([@ EXCEPT !.totalBooks = Cardinality(DOMAIN books),
                                   !.totalPages =
                                       Ceil(Cardinality(DOMAIN books),
                                            reqs[r].limit)],
                         200, "list")]
    /\ UNCHANGED <<books, nextId, cookie, poolOut>>

\* ------------------------------------------------------------ specifications
NoBooks == [i \in {} |-> [pdf_url |-> <<>>, created_at |-> 0]]

Init ==
    /\ books = NoBooks
    /\ nextId = 1
    /\ cookie = "none"
    /\ poolOut = 0
    /\ reqs = [r \in Reqs |-> Idle]

Bodies == {<<>>, <<"A">>}

\* The slots a request may arrive in now.
FreeSlots == {r \in Reqs : Free(r)}

Next ==
    \/ \E u \in Usernames, p \in Passwords : Login(u, p)
    \/ Logout
    \/ \E r \in Reqs : Clear(r)
    \/ \E r \in FreeSlots, s \in Sessions : CheckAuth(r, s)
    \/ \E r \in FreeSlots, s \in Sessions, j \in BOOLEAN : Dashboard(r, s, j)
    \/ \E r \in FreeSlots, s \in Sessions, t \in Bodies, th \in Bodies,
          u \in NewUrls \cup {<<>>}, ok \in BOOLEAN : Create(r, s, t, th, u, ok)
    \/ \E r \in FreeSlots, s \in Sessions, id \in ReqIds,
          u \in NewUrls \cup {<<>>}, old \in Urls \cup {<<>>}, ok \in BOOLEAN :
             UpdateQuery(r, s, id, u, old, ok)
    \/ \E r \in Reqs, ok \in BOOLEAN : UpdateRemove(r, ok)
    \/ \E r \in FreeSlots, s \in Sessions, id \in ReqIds, ok \in BOOLEAN :
             DeleteConnect(r, s, id, ok)
    \/ \E r \in Reqs, ok \in BOOLEAN : DeleteBegin(r, ok)
    \/ \E r \in Reqs, ok \in BOOLEAN : DeleteSelect(r, ok)
    \/ \E r \in Reqs, ok \in BOOLEAN : DeleteNotFound(r, ok)
    \/ \E r \in Reqs, ok \in BOOLEAN : DeleteRow(r, ok)
    \/ \E r \in Reqs, ok \in BOOLEAN : DeleteRemove(r, ok)
    \/ \E r \in Reqs, ok \in BOOLEAN : DeleteCommit(r, ok)
    \/ \E r \in Reqs, ok \in BOOLEAN : DeleteCatch(r, ok)
    \/ \E r \in FreeSlots, s \in Sessions, ok \in BOOLEAN :
             ListQuery(r, s, <<>>, <<>>, ok)
    \/ \E r \in Reqs, ok \in BOOLEAN : ListCount(r, ok)

Spec == Init /\ [][Next]_vars

\* The paged list on its own: a table of some rows, inserted one after the
\* other (some deleted since), and list requests with every query value.
Tables ==
    {[i \in D |-> [pdf_url |-> UrlA, created_at |-> i]] : D \in SUBSET (1..MaxRows)}

InitList ==
    /\ books \in Tables
    /\ nextId = MaxRows + 1
    /\ cookie = Marker
    /\ poolOut = 0
    /\ reqs = [r \in Reqs |-> Idle]

NextList ==
    \/ \E r \in FreeSlots \cap {1}, s \in Sessions, p \in QueryVals,
          l \in QueryVals, ok \in BOOLEAN : ListQuery(r, s, p, l, ok)
    \/ \E ok \in BOOLEAN : ListCount(1, ok)
    \/ Clear(1)

SpecList == InitList /\ [][NextList]_vars


\* ------------------------------------------------------------------- claims
\* A finished request of the given kind that passed the session gate.
Finished(r, kind) ==
    reqs[r].kind = kind /\ reqs[r].pc = "done" /\ reqs[r].session = Marker

ApiKinds == {"list", "create", "update", "delete", "check"}

\* C1, state part: a DELETE whose statements all succeed answers 404 and
\* removes nothing when its lookup finds no row, and answers 200 with the row
\* gone from the table when it finds one, whatever became of the file cleanup.
C1_Answer ==
    \A r \in Reqs : Finished(r, "delete") =>
        /\ (reqs[r].status = 404 => reqs[r].rowCount = 0 /\ ~reqs[r].committed)
        /\ (~reqs[r].fault /\ ~reqs[r].found =>
               reqs[r].status = 404 /\ reqs[r].responses = 1)
        /\ (~reqs[r].fault /\ reqs[r].found =>
               /\ reqs[r].status = 200 /\ reqs[r].responses = 1
               /\ reqs[r].id \notin DOMAIN books)

\* C1, step part: the step that answers 404 leaves the table as it is, and a
\* row that is gone never comes back (no later list shows it).
C1_Step ==
    /\ \A r \in Reqs :
          reqs'[r].status = 404 /\ reqs[r].status # 404 => books' = books
    /\ \A i \in Ids : i < nextId /\ i \notin DOMAIN books => i \notin DOMAIN books'

\* C1: Delete is atomic: 404 and no row removed when the id is absent; 200 and
\* the row absent from every later list when it exists and the database
\* statements succeed, for every outcome of the object-storage cleanup.
C1_DeleteAtomic == [](C1_Answer) /\ [][C1_Step]_vars

C1_Witness ==
    \E r \in Reqs :
        /\ Finished(r, "delete") /\ reqs[r].status = 200
        /\ reqs[r].cleanup = "remote_error"
        /\ reqs[r].id \notin DOMAIN books

\* C2: a request to a protected API endpoint that does not carry the
\* logged-in marker is answered 401 with a failure body in the step it
\* arrives, issues no remove call, and leaves table, id counter and pool
\* unchanged.
C2_UnauthDenied ==
    [][\A r \in Reqs :
          (reqs[r].kind = "idle" /\ reqs'[r].kind \in ApiKinds
              /\ reqs'[r].session # Marker)
          => /\ reqs'[r].pc = "done"
             /\ reqs'[r].status = 401 /\ reqs'[r].body = "failure"
             /\ reqs'[r].responses = 1
             /\ reqs'[r].calls = <<>>
             /\ books' = books /\ nextId' = nextId /\ poolOut' = poolOut]_vars

\* After a login, a create and a logout, a DELETE with the browser's cookie.
C2_Witness ==
    \E r \in Reqs :
        /\ reqs[r].kind = "delete" /\ reqs[r].status = 401
        /\ reqs[r].session = "none" /\ cookie = "none"
        /\ DOMAIN books # {}

\* The cleanup of an update was entered (the try block of the removal).
Attempted(q) ==
    q.cleanup \in {"parse_error", "no_key", "ok", "remote_error"}

\* C3 as stated: every Update with old_pdf_url equal to pdf_url makes no
\* cleanup call, and every Update with an old_pdf_url that differs makes
\* exactly one, for the old URL, whatever its shape.
C3_Original ==
    \A r \in Reqs : Finished(r, "update") =>
        /\ (reqs[r].old_pdf_url = reqs[r].pdf_url => reqs[r].calls = <<>>)
        /\ (reqs[r].old_pdf_url # <<>> /\ reqs[r].old_pdf_url # reqs[r].pdf_url
               => Len(reqs[r].calls) = 1)

\* C3 amended: an Update makes no remove call when old_pdf_url is absent or
\* equals pdf_url, or when its UPDATE statement fails; otherwise it enters the
\* cleanup once, and that issues exactly one remove call, for the key of the
\* old URL, if the old URL parses and names a key after the bucket segment,
\* and none if it does not.
C3_Amended ==
    \A r \in Reqs : Finished(r, "update") =>
        LET q == reqs[r]
            due == ~q.fault /\ q.old_pdf_url # <<>> /\ q.old_pdf_url # q.pdf_url
            keyed == UrlParses(q.old_pdf_url) /\ FilePath(q.old_pdf_url) # <<>>
        IN  /\ Attempted(q) <=> due
            /\ q.calls = IF due /\ keyed THEN <<FilePath(q.old_pdf_url)>> ELSE <<>>
            /\ due /\ ~keyed =>
                  q.cleanup = IF UrlParses(q.old_pdf_url) THEN "no_key"
                              ELSE "parse_error"

C3_Witness ==
    \E r \in Reqs :
        /\ Finished(r, "update") /\ reqs[r].status = 200
        /\ reqs[r].old_pdf_url = UrlA /\ reqs[r].pdf_url = UrlPlain
        /\ reqs[r].calls = <<FilePath(UrlA)>>
        /\ reqs[r].id \in DOMAIN books

\* C4: the status of an Update or a Delete is decided by its database
\* statements alone: an Update answers 200 exactly when its UPDATE succeeded,
\* a Delete 200 exactly when its statements succeeded and the lookup found
\* the row, whichever way the cleanup went.
C4_CleanupSwallowed ==
    \A r \in Reqs :
        /\ Finished(r, "update") =>
              reqs[r].status = IF reqs[r].fault THEN 500 ELSE 200
        /\ Finished(r, "delete") =>
              /\ reqs[r].status = 200 <=> ~reqs[r].fault /\ reqs[r].found
              /\ reqs[r].status = 404 <=> ~reqs[r].fault /\ ~reqs[r].found

C4_Witness ==
    \E r \in Reqs :
        /\ Finished(r, "update") /\ reqs[r].status = 200
        /\ reqs[r].cleanup = "remote_error"

\* Pages p..n of the table for one limit, one after the other, each as the
\* handler selects it.
RECURSIVE Pages(_, _, _, _)
Pages(table, limit, p, n) ==
    IF p > n THEN <<>>
    ELSE SelectPage(table, limit, Offset(p, limit)) \o Pages(table, limit, p + 1, n)

\* seq lists every row of the table once, newest first.
IsFullListDesc(seq, table) ==
    /\ Len(seq) = Cardinality(DOMAIN table)
    /\ {seq[k] : k \in 1..Len(seq)} = DOMAIN table
    /\ \A k \in 1..(Len(seq) - 1) :
          table[seq[k]].created_at >= table[seq[k + 1]].created_at

BadValue(str) == ParseInt(str).nan \/ ParseInt(str).val <= 0

\* C6 as stated: with the database up, a list request whose page or limit is
\* non-positive or non-numeric uses the default for that parameter and is
\* answered 200 like the default request, never with an error.
C6_Original ==
    \A r \in Reqs : Finished(r, "list") /\ ~reqs[r].fault =>
        /\ reqs[r].status = 200
        /\ BadValue(reqs[r].pageStr) => reqs[r].page = DefaultPage
        /\ BadValue(reqs[r].limitStr) => reqs[r].limit = DefaultLimit
        /\ BadValue(reqs[r].pageStr) /\ BadValue(reqs[r].limitStr) =>
              reqs[r].rows = SelectPage(books, DefaultLimit, 0)

\* C7 as stated: a Delete one of whose database steps failed ends rolled
\* back: nothing of it is committed, its transaction holds no row, and the
\* caller got exactly one response, a 500.
C7_Original ==
    \A r \in Reqs : Finished(r, "delete") /\ reqs[r].fault =>
        /\ ~reqs[r].committed /\ ~reqs[r].pending
        /\ reqs[r].responses = 1
        /\ reqs[r].status = 500

\* A Delete handler holds a client of the pool.
Holding == {r \in Reqs : reqs[r].conn}

\* C8, state part: the clients checked out are those of the Delete requests
\* in flight, and a finished Delete has released the client it acquired
\* exactly once; so with no Delete in flight none is checked out.
C8_PoolBalanced ==
    /\ poolOut = Cardinality(Holding)
    /\ \A r \in Reqs :
          /\ reqs[r].conn =>
                reqs[r].kind = "delete" /\ reqs[r].pc \notin {"idle", "done"}
          /\ reqs[r].kind = "delete" /\ reqs[r].pc = "done" =>
                reqs[r].releases = IF reqs[r].acquired THEN 1 ELSE 0
          /\ reqs[r].releases <= 1
    /\ (\A r \in Reqs : reqs[r].kind # "delete" \/ reqs[r].pc = "done")
          => poolOut = 0

\* C8: every Delete that acquires a client eventually releases it, exactly
\* once, on every exit path; with no Delete in flight none is checked out.
C8_ReleaseAlways ==
    /\ [](C8_PoolBalanced)
    /\ \A r \in Reqs : reqs[r].conn ~> ~reqs[r].conn

\* A Delete whose ROLLBACK in the catch block threw, its client released.
C8_Witness ==
    \E r \in Reqs :
        /\ reqs[r].kind = "delete" /\ reqs[r].pc = "done"
        /\ reqs[r].acquired /\ reqs[r].status = 0 /\ reqs[r].releases = 1
        /\ poolOut = 0

\* Some committed row points at the object stored under key.
Referenced(table, key) ==
    \E i \in DOMAIN table :
        UrlParses(table[i].pdf_url) /\ FilePath(table[i].pdf_url) = key

\* C9 as stated: when an Update or a Delete that removed an object finishes
\* and no other request is in flight, no committed row points at that object.
C9_Original ==
    [][\A r \in Reqs :
          (/\ reqs'[r].pc = "done" /\ reqs[r].pc # "done"
           /\ reqs'[r].kind \in {"update", "delete"}
           /\ reqs'[r].cleanup = "ok"
           /\ \A o \in Reqs \ {r} : reqs'[o].kind = "idle")
          => ~Referenced(books', reqs'[r].key)]_vars

\* C10 as stated, request by request: a DELETE is answered 200 only if its
\* own DELETE statement removed the row, and only such a request has issued
\* the remove call for the book's file. (The row can vanish between a
\* request's lookup and its DELETE statement only by the commit of another
\* DELETE of the same id, so two requests answered 200 for one id are a
\* request answered 200 with a row count of 0.)
C10_Original ==
    \A r \in Reqs : Finished(r, "delete") /\ ~reqs[r].fault =>
        /\ reqs[r].status = 200 => reqs[r].rowCount = 1
        /\ reqs[r].calls # <<>> => reqs[r].rowCount = 1

\* --------------------------------------------- the Delete handler on its own
\* Tables the program can have built: rows inserted one after the other, some
\* deleted since.
DeleteTables ==
    UNION {[D -> {[pdf_url |-> u, created_at |-> 0] : u \in NewUrls}]
              : D \in SUBSET Ids}

InitDelete ==
    /\ books \in {[i \in DOMAIN t |-> [t[i] EXCEPT !.created_at = i]]
                     : t \in DeleteTables}
    /\ nextId = MaxId + 1
    /\ cookie = Marker
    /\ poolOut = 0
    /\ reqs = [r \in Reqs |-> Idle]

NextDelete ==
    \/ \E r \in Reqs : Clear(r)
    \/ \E r \in FreeSlots, s \in Sessions, id \in ReqIds, ok \in BOOLEAN :
             DeleteConnect(r, s, id, ok)
    \/ \E r \in Reqs, ok \in BOOLEAN : DeleteBegin(r, ok)
    \/ \E r \in Reqs, ok \in BOOLEAN : DeleteSelect(r, ok)
    \/ \E r \in Reqs, ok \in BOOLEAN : DeleteNotFound(r, ok)
    \/ \E r \in Reqs, ok \in BOOLEAN : DeleteRow(r, ok)
    \/ \E r \in Reqs, ok \in BOOLEAN : DeleteRemove(r, ok)
    \/ \E r \in Reqs, ok \in BOOLEAN : DeleteCommit(r, ok)
    \/ \E r \in Reqs, ok \in BOOLEAN : DeleteCatch(r, ok)

\* A step of the Delete handler of request r. The event loop runs every
\* handler whose awaited statement or call has settled, and every statement or
\* call settles; a statement waiting for a row gets it once the holder ends.
DeleteStep(r) ==
    \/ \E ok \in BOOLEAN : DeleteBegin(r, ok)
    \/ \E ok \in BOOLEAN : DeleteSelect(r, ok)
    \/ \E ok \in BOOLEAN : DeleteNotFound(r, ok)
    \/ \E ok \in BOOLEAN : DeleteRow(r, ok)
    \/ \E ok \in BOOLEAN : DeleteRemove(r, ok)
    \/ \E ok \in BOOLEAN : DeleteCommit(r, ok)
    \/ \E ok \in BOOLEAN : DeleteCatch(r, ok)

FairDelete ==
    /\ InitDelete /\ [][NextDelete]_vars
    /\ \A r \in Reqs : SF_vars(DeleteStep(r)) /\ WF_vars(Clear(r))

=============================================================================
